---- MODULE Spec2Model ----
(***************************************************************************)
(* RateLimitStage (astrbot/core/pipeline/rate_limit_check/stage.py): the   *)
(* fixed-window rate limiter of the pipeline, as a state machine.          *)
(*                                                                         *)
(* Time is counted in ticks of 0.1 s, so that the 0.3 s the code adds to   *)
(* every stall is the integer Grace = 3.  A coroutine runs without         *)
(* interruption between two awaits (asyncio is cooperative), so one action *)
(* is the code from one await to the next: the awaits of process() are the *)
(* lock acquisition of `async with` (only when the lock is contended) and  *)
(* asyncio.sleep.                                                          *)
(***************************************************************************)
EXTENDS Integers, Sequences, FiniteSets, TLC

\* ---------------------------------------------------------------- bounds
NumEvents == 2
MaxClock == 8
MaxCount == 2
MaxErrors == 2
CachedSize == 2
QueueExtra == 1
MaxSubscribers == 2

\* 0.3 s, in ticks of 0.1 s
Grace == 3

Events == 1..NumEvents
Sessions == {"A", "B"}
Strategies == {"stall", "discard"}
\* rate_limit.time of the configuration, in ticks
WindowChoices == {2, 10}
\* platform_settings.rate_limit of the configuration.  A window longer than the
\* clock's horizon is explored under "discard" only: under "stall" no sleep of
\* such a window ends within the horizon.
Configs ==
    {c \in [count : 1..MaxCount, time : WindowChoices, strategy : Strategies] :
        c.time <= MaxClock \/ c.strategy = "discard"}

VARIABLES
    rate_limit_count,   \* self.rate_limit_count
    rate_limit_time,    \* self.rate_limit_time
    rl_strategy,        \* self.rl_strategy
    event_timestamps,   \* self.event_timestamps: session key -> deque
    locks,              \* self.locks: session key -> asyncio.Lock
    clock,              \* datetime.now(timezone.utc)
    pc,                 \* where each process() call stands
    session_id,         \* event.session_id of each call
    now,                \* the local `now` of each call
    wake_at,            \* the instant asyncio.sleep may return
    stopped,            \* event.stop_event() was called
    admissions          \* per session, the instants of the admissions of the
                        \* last rate_limit_time ticks (the clock's, not `now`)

\* the rate limit stage
stageVars == <<rate_limit_count, rate_limit_time, rl_strategy, event_timestamps,
               locks, clock, pc, session_id, now, wake_at, stopped, admissions>>

VARIABLES
    log_cache,          \* LogBroker.log_cache: deque(maxlen=CACHED_SIZE)
    subscribers,        \* LogBroker.subscribers: list of Queue
    publish_result      \* how the last call of LogBroker.publish ended

brokerVars == <<log_cache, subscribers, publish_result>>

VARIABLES
    _status,            \* Platform._status
    _errors,            \* len(Platform._errors)
    _started_at         \* Platform._started_at (NoTime for None)

platformVars == <<_status, _errors, _started_at>>

VARIABLES
    stage_of,           \* per event, the stage the Dispatcher runs for it (0: none)
    invoked,            \* per event, the stages invoked for it so far, in order
    signals,            \* per event, what the stages that returned signalled
    outcome             \* per event, what Dispatcher.run(event) returned

dispatcherVars == <<stage_of, invoked, signals, outcome>>

\* the objects beside the stage, which no step of the stage touches
collaborators == <<brokerVars, platformVars, dispatcherVars>>

vars == <<stageVars, collaborators>>

config == <<rate_limit_count, rate_limit_time, rl_strategy>>

NoSession == "-"
NoTime == -1

\* ------------------------------------------------------- the two defaultdicts
\* defaultdict(asyncio.Lock): a new lock is unlocked and has no waiters
NewLock == [locked |-> FALSE, waiters |-> <<>>]

\* m[k] of a defaultdict: the value, or the default when k is missing
Lookup(m, k, default) == IF k \in DOMAIN m THEN m[k] ELSE default

\* (a variant that rebuilds the map around the key it sets)
PutFresh(m, k, v) == [x \in {k} |-> v]

\* m[k] = v
Put(m, k, v) == [x \in DOMAIN m \cup {k} |-> IF x = k THEN v ELSE m[x]]

\* (a variant with one lock for all sessions)
LockKeyShared(sid) == "A"

\* self.locks[session_id]: locks are kept per session key
LockKey(sid) == sid

\* (a variant that enters without looking at the lock)
CanAcquireAlways(l) == TRUE

\* asyncio.Lock.acquire returns at once when the lock is free and nobody waits
CanAcquire(l) == ~l.locked /\ l.waiters = <<>>

\* ------------------------------------------------------------ pure helpers
\* (a variant that also drops the entry whose age is exactly the window)
RECURSIVE RemoveExpiredInclusive(_, _)
RemoveExpiredInclusive(timestamps, n) ==
    LET expiry_threshold == n - rate_limit_time IN
    IF timestamps # <<>> /\ Head(timestamps) <= expiry_threshold
    THEN RemoveExpiredInclusive(Tail(timestamps), n)
    ELSE timestamps

\* (a variant that pops at most one entry: `if` for `while`)
RemoveExpiredOnce(timestamps, n) ==
    IF timestamps # <<>> /\ Head(timestamps) < n - rate_limit_time
    THEN Tail(timestamps)
    ELSE timestamps

\* (a variant that drops every expired entry, wherever it stands)
RemoveExpiredAnywhere(timestamps, n) ==
    SelectSeq(timestamps, LAMBDA t : t >= n - rate_limit_time)

\* (a variant that prunes nothing)
RemoveExpiredNever(timestamps, n) == timestamps

\* _remove_expired_timestamps: popleft while timestamps[0] < now - rate_limit_time
RECURSIVE _remove_expired_timestamps(_, _)
_remove_expired_timestamps(timestamps, n) ==
    LET expiry_threshold == n - rate_limit_time IN
    IF timestamps # <<>> /\ Head(timestamps) < expiry_threshold
    THEN _remove_expired_timestamps(Tail(timestamps), n)
    ELSE timestamps

\* (a variant that admits up to and including the count)
HasCapacityInclusive(timestamps) == Len(timestamps) <= rate_limit_count

\* len(timestamps) < self.rate_limit_count
HasCapacity(timestamps) == Len(timestamps) < rate_limit_count

\* (a variant with the operands of the subtraction swapped)
StallDurationSwapped(timestamps, n) == (n - (Head(timestamps) + rate_limit_time)) + Grace

\* (a variant without the 0.3 s of grace)
StallDurationNoGrace(timestamps, n) == Head(timestamps) + rate_limit_time - n

\* (timestamps[0] + self.rate_limit_time - now).total_seconds() + 0.3
StallDuration(timestamps, n) == (Head(timestamps) + rate_limit_time - n) + Grace

\* (a variant that leaves the section without releasing)
ReleaseForgotten(lks, sid) == lks

\* __aexit__ of `async with`: Lock.release
Release(lks, sid) ==
    Put(lks, LockKey(sid), [Lookup(lks, LockKey(sid), NewLock) EXCEPT !.locked = FALSE])

\* (a variant that sleeps outside the lock)
ReleasedForSleep(lks, sid) == Release(lks, sid)

\* `await asyncio.sleep(...)` stands inside `async with`: the lock stays held
HeldAcrossSleep(lks, sid) == lks

\* (a variant that records the rejected attempt)
DiscardedRecorded(timestamps, n) == Append(timestamps, n)

\* case DISCARD: the deque is left as the pass found it after the prune
DiscardedTimestamps(timestamps, n) == timestamps

\* (a variant that forgets to stop the event)
StopEventForgotten(stp, e) == stp

\* event.stop_event()
StopEvent(stp, e) == [stp EXCEPT ![e] = TRUE]

\* ------------------------------------------------------- the collaborators
\* LogBroker.__init__: nothing cached, nobody subscribed
InitBroker ==
    /\ log_cache = <<>>
    /\ subscribers = <<>>
    /\ publish_result = "none"

PlatformStatus == {"pending", "running", "error", "stopped"}

\* Platform.__init__
InitPlatform ==
    /\ _status = "pending"
    /\ _errors = 0
    /\ _started_at = NoTime

\* the Dispatcher has no event in hand
InitDispatcher ==
    /\ stage_of = [e \in Events |-> 0]
    /\ invoked = [e \in Events |-> <<>>]
    /\ signals = [e \in Events |-> <<>>]
    /\ outcome = [e \in Events |-> "none"]

InitCollaborators == InitBroker /\ InitPlatform /\ InitDispatcher

\* ------------------------------------------------------------------- Init
Init ==
    /\ \E c \in Configs :
          /\ rate_limit_count = c.count
          /\ rate_limit_time = c.time
          /\ rl_strategy = c.strategy
    /\ event_timestamps = <<>>
    /\ locks = <<>>
    /\ clock = 0
    /\ pc = [e \in Events |-> "idle"]
    /\ session_id = [e \in Events |-> NoSession]
    /\ now = [e \in Events |-> NoTime]
    /\ wake_at = [e \in Events |-> NoTime]
    /\ stopped = [e \in Events |-> FALSE]
    /\ admissions = [s \in Sessions |-> <<>>]
    /\ InitCollaborators

\* ------------------------------------------------- the body of `while True`
\* One pass of the loop of process() by call e, which holds the lock of sid in
\* lks and uses n as `now`: up to the break, the return, or the sleep.  The
\* local `now` is not read again after the pass (line 78 rebinds it after the
\* sleep, and it dies with the call), so the model forgets it here.
LoopPass(e, sid, n, lks) ==
    LET timestamps == _remove_expired_timestamps(Lookup(event_timestamps, sid, <<>>), n)
    IN
    /\ now' = [now EXCEPT ![e] = NoTime]
    /\ wake_at' = [wake_at EXCEPT ![e] =
                     IF ~HasCapacity(timestamps) /\ timestamps # <<>> /\ rl_strategy = "stall"
                     THEN clock + StallDuration(timestamps, n) ELSE NoTime]
    /\ IF HasCapacity(timestamps)
       THEN /\ event_timestamps' = Put(event_timestamps, sid, Append(timestamps, n))
            /\ admissions' = [admissions EXCEPT ![sid] = Append(@, clock)]
            /\ pc' = [pc EXCEPT ![e] = "admitted"]
            /\ locks' = Release(lks, sid)
            /\ UNCHANGED stopped
       ELSE IF timestamps = <<>>
       THEN \* line 69: timestamps[0] of an empty deque raises IndexError, which
            \* leaves process() through `async with`
            /\ event_timestamps' = Put(event_timestamps, sid, timestamps)
            /\ pc' = [pc EXCEPT ![e] = "raised"]
            /\ locks' = Release(lks, sid)
            /\ UNCHANGED <<admissions, stopped>>
       ELSE IF rl_strategy = "stall"
       THEN /\ event_timestamps' = Put(event_timestamps, sid, timestamps)
            /\ pc' = [pc EXCEPT ![e] = "sleeping"]
            /\ locks' = HeldAcrossSleep(lks, sid)
            /\ UNCHANGED <<admissions, stopped>>
       ELSE IF rl_strategy = "discard"
       THEN /\ event_timestamps' = Put(event_timestamps, sid, DiscardedTimestamps(timestamps, n))
            /\ pc' = [pc EXCEPT ![e] = "dropped"]
            /\ stopped' = StopEvent(stopped, e)
            /\ locks' = Release(lks, sid)
            /\ UNCHANGED admissions
       ELSE \* no case of the match applies: `while True` starts over with the
            \* same `now` and the same deque, without an await, for ever
            /\ event_timestamps' = Put(event_timestamps, sid, timestamps)
            /\ pc' = [pc EXCEPT ![e] = "spinning"]
            /\ locks' = lks
            /\ UNCHANGED <<admissions, stopped>>

\* (a variant that appends right after the sleep, without the re-check)
AdmitAfterSleep(e, sid, n, lks) ==
    /\ now' = [now EXCEPT ![e] = NoTime]
    /\ wake_at' = [wake_at EXCEPT ![e] = NoTime]
    /\ event_timestamps' =
          Put(event_timestamps, sid, Append(Lookup(event_timestamps, sid, <<>>), n))
    /\ admissions' = [admissions EXCEPT ![sid] = Append(@, clock)]
    /\ pc' = [pc EXCEPT ![e] = "admitted"]
    /\ locks' = Release(lks, sid)
    /\ UNCHANGED stopped

\* after the sleep the loop starts over: prune, check, append or sleep again
AfterSleep(e, sid, n, lks) == LoopPass(e, sid, n, lks)

\* ---------------------------------------------------------------- actions
\* process(event) is called: `now` is read, then the lock is taken or awaited
Arrive(e, sid) ==
    /\ pc[e] = "idle"
    /\ session_id' = [session_id EXCEPT ![e] = sid]
    /\ LET l == Lookup(locks, LockKey(sid), NewLock) IN
       IF CanAcquire(l)
       THEN LoopPass(e, sid, clock, Put(locks, LockKey(sid), [l EXCEPT !.locked = TRUE]))
       ELSE /\ locks' = Put(locks, LockKey(sid), [l EXCEPT !.waiters = Append(@, e)])
            /\ pc' = [pc EXCEPT ![e] = "waiting"]
            /\ now' = [now EXCEPT ![e] = clock]
            /\ UNCHANGED <<event_timestamps, wake_at, stopped, admissions>>
    /\ UNCHANGED <<collaborators, config, clock>>

\* the lock was released and e is the first waiter: e resumes inside the section
LockGranted(e) ==
    /\ pc[e] = "waiting"
    /\ LET sid == session_id[e]
           l == locks[LockKey(sid)]
       IN
       /\ ~l.locked
       /\ l.waiters # <<>>
       /\ Head(l.waiters) = e
       /\ LoopPass(e, sid, now[e],
                   Put(locks, LockKey(sid), [locked |-> TRUE, waiters |-> Tail(l.waiters)]))
    /\ UNCHANGED <<collaborators, config, clock, session_id>>

\* asyncio.sleep returns: `now` is read again and the loop starts over
Wake(e) ==
    /\ pc[e] = "sleeping"
    /\ clock >= wake_at[e]
    /\ AfterSleep(e, session_id[e], clock, locks)
    /\ UNCHANGED <<collaborators, config, clock, session_id>>

\* process() has returned or raised; the next event takes the place of this one
Return(e) ==
    /\ pc[e] \in {"admitted", "dropped", "raised", "cancelled", "cancelled_waiting"}
    /\ pc' = [pc EXCEPT ![e] = "idle"]
    /\ session_id' = [session_id EXCEPT ![e] = NoSession]
    /\ stopped' = [stopped EXCEPT ![e] = FALSE]
    /\ UNCHANGED <<now, wake_at>>
    /\ UNCHANGED <<collaborators, config, clock, event_timestamps, locks, admissions>>

\* the admissions of the last rate_limit_time ticks, window (t - W, t]
RECURSIVE Recent(_, _)
Recent(s, t) ==
    IF s # <<>> /\ Head(s) <= t - rate_limit_time THEN Recent(Tail(s), t) ELSE s

\* time passes
Tick ==
    /\ clock < MaxClock
    /\ clock' = clock + 1
    /\ admissions' = [s \in Sessions |-> Recent(admissions[s], clock + 1)]
    /\ UNCHANGED <<collaborators, config, event_timestamps, locks, pc, session_id, now, wake_at,
                   stopped>>

Next ==
    \/ \E e \in Events, sid \in Sessions : Arrive(e, sid)
    \/ \E e \in Events : LockGranted(e)
    \/ \E e \in Events : Wake(e)
    \/ \E e \in Events : Return(e)
    \/ Tick

Spec == Init /\ [][Next]_vars

\* ------------------------------------------------- stalling, with fairness
\* windows of 0.2 s and of 10 s, in ticks
LiveWindows == {2, 100}

\* the instants at which process() is called: t = 0 s, 1 s, 2 s
ArrivalInstants == {0, 10, 20}

LiveConfigs == [count : 1..MaxCount, time : LiveWindows, strategy : {"stall"}]

InitLive ==
    /\ \E c \in LiveConfigs :
          /\ rate_limit_count = c.count
          /\ rate_limit_time = c.time
          /\ rl_strategy = c.strategy
    /\ event_timestamps = <<>>
    /\ locks = <<>>
    /\ clock = 0
    /\ pc = [e \in Events |-> "idle"]
    /\ session_id = [e \in Events |-> NoSession]
    /\ now = [e \in Events |-> NoTime]
    /\ wake_at = [e \in Events |-> NoTime]
    /\ stopped = [e \in Events |-> FALSE]
    /\ admissions = [s \in Sessions |-> <<>>]
    /\ InitCollaborators

\* process() is called at one of the arrival instants
ArriveLive(e, sid) == clock \in ArrivalInstants /\ Arrive(e, sid)

\* the instants at which something is due: an arrival, or the end of a sleep
PendingInstants ==
    ArrivalInstants \cup {wake_at[e] : e \in {x \in Events : pc[x] = "sleeping"}}

\* time passes, up to the next instant at which something is due; a call whose
\* sleep or lock wait is over may still resume later than that
Advance ==
    /\ \E t \in PendingInstants :
          /\ t > clock
          /\ \A u \in PendingInstants : u > clock => t <= u
          /\ clock' = t
          /\ admissions' = [s \in Sessions |-> Recent(admissions[s], t)]
    /\ UNCHANGED <<collaborators, config, event_timestamps, locks, pc, session_id, now, wake_at,
                   stopped>>

NextLive ==
    \/ \E e \in Events, sid \in Sessions : ArriveLive(e, sid)
    \/ \E e \in Events : LockGranted(e)
    \/ \E e \in Events : Wake(e)
    \/ \E e \in Events : Return(e)
    \/ Advance

\* time keeps advancing, and the event loop resumes every task that is ready
LiveSpec ==
    /\ InitLive
    /\ [][NextLive]_vars
    /\ WF_vars(Advance)
    /\ \A e \in Events : WF_vars(Wake(e)) /\ WF_vars(LockGranted(e))

\* ------------------------------------------------------------ cancellation
\* the configurations under which calls are cancelled: a window that fits the
\* clock and a count that makes the second call of a session stall or drop,
\* and also count 0, where a call leaves the section by an exception
CancelConfigs ==
    {c \in [count : 0..(MaxCount - 1), time : WindowChoices, strategy : Strategies] :
        c.time <= MaxClock}

InitCancel ==
    /\ \E c \in CancelConfigs :
          /\ rate_limit_count = c.count
          /\ rate_limit_time = c.time
          /\ rl_strategy = c.strategy
    /\ event_timestamps = <<>>
    /\ locks = <<>>
    /\ clock = 0
    /\ pc = [e \in Events |-> "idle"]
    /\ session_id = [e \in Events |-> NoSession]
    /\ now = [e \in Events |-> NoTime]
    /\ wake_at = [e \in Events |-> NoTime]
    /\ stopped = [e \in Events |-> FALSE]
    /\ admissions = [s \in Sessions |-> <<>>]
    /\ InitCollaborators

\* (a variant in which the exception leaves the lock held)
HeldAfterCancel(lks, sid) == lks

\* CancelledError leaves `async with` through __aexit__, which releases the lock
ReleaseOnCancel(lks, sid) == Release(lks, sid)

\* the task of call e is cancelled during `await asyncio.sleep(...)` (line 77):
\* the timer is dropped and CancelledError propagates out of process()
CancelSleep(e) ==
    /\ pc[e] = "sleeping"
    /\ pc' = [pc EXCEPT ![e] = "cancelled"]
    /\ wake_at' = [wake_at EXCEPT ![e] = NoTime]
    /\ locks' = ReleaseOnCancel(locks, LockKey(session_id[e]))
    /\ UNCHANGED <<collaborators, config, clock, event_timestamps, session_id, now, stopped, admissions>>

\* the task of call e is cancelled while it waits in Lock.acquire (line 60):
\* its future leaves the queue of waiters and the section is never entered
CancelWait(e) ==
    /\ pc[e] = "waiting"
    /\ pc' = [pc EXCEPT ![e] = "cancelled_waiting"]
    /\ now' = [now EXCEPT ![e] = NoTime]
    /\ LET k == LockKey(session_id[e]) IN
       locks' = Put(locks, k, [locks[k] EXCEPT !.waiters = SelectSeq(@, LAMBDA f : f # e)])
    /\ UNCHANGED <<collaborators, config, clock, event_timestamps, session_id, wake_at, stopped, admissions>>

NextCancel ==
    \/ Next
    \/ \E e \in Events : CancelSleep(e)
    \/ \E e \in Events : CancelWait(e)

SpecCancel == InitCancel /\ [][NextCancel]_vars

\* ------------------------------------------- configurations left unchecked
\* initialize() copies the three settings as they come; these are the values a
\* configuration file can hold that the specification calls invalid
UncheckedConfigs ==
    {c \in [count : 0..MaxCount, time : {0} \cup WindowChoices,
            strategy : Strategies \cup {"other"}] :
        /\ c.count = 0 \/ c.time = 0 \/ c.strategy \notin Strategies
        /\ c.time <= MaxClock \/ c.strategy = "discard"}

InitUnchecked ==
    /\ \E c \in UncheckedConfigs :
          /\ rate_limit_count = c.count
          /\ rate_limit_time = c.time
          /\ rl_strategy = c.strategy
    /\ event_timestamps = <<>>
    /\ locks = <<>>
    /\ clock = 0
    /\ pc = [e \in Events |-> "idle"]
    /\ session_id = [e \in Events |-> NoSession]
    /\ now = [e \in Events |-> NoTime]
    /\ wake_at = [e \in Events |-> NoTime]
    /\ stopped = [e \in Events |-> FALSE]
    /\ admissions = [s \in Sessions |-> <<>>]
    /\ InitCollaborators

\* a call that loops without awaiting keeps the event loop: no other coroutine
\* of the process runs again
Blocked == \E e \in Events : pc[e] = "spinning"

\* one more turn of `while True`: prune with the same `now`, same deque, no case
Spin(e) ==
    /\ pc[e] = "spinning"
    /\ UNCHANGED vars

NextUnchecked ==
    \/ ~Blocked /\ \E e \in Events, sid \in Sessions : Arrive(e, sid)
    \/ ~Blocked /\ \E e \in Events : LockGranted(e)
    \/ ~Blocked /\ \E e \in Events : Wake(e)
    \/ ~Blocked /\ \E e \in Events : Return(e)
    \/ \E e \in Events : Spin(e)
    \/ Tick

SpecUnchecked == InitUnchecked /\ [][NextUnchecked]_vars

\* ------------------------------------------------ beside an idle stage
\* the stage is initialized and no event arrives
InitQuiet == Init /\ rate_limit_count = 1 /\ rl_strategy = "stall"

\* -------------------------------------------------------------- LogBroker
\* the entries the stage logs: the stall message (lines 74-76 of the stage)
\* and the discard message (lines 80-82)
LogEntries == {"stall", "discard"}

\* Queue(maxsize=CACHED_SIZE + 10)
QueueMaxSize == CachedSize + QueueExtra

\* deque(maxlen=CACHED_SIZE).append: a full deque drops its oldest entry
CacheAppend(cache, log_entry) ==
    IF Len(cache) >= CachedSize
    THEN Append(Tail(cache), log_entry)
    ELSE Append(cache, log_entry)

RECURSIVE Deliver(_, _)

\* (a variant without the try/except: QueueFull leaves publish)
ExceptQueueFullRaise(q, rest, log_entry) ==
    [queues |-> <<q>> \o rest, raised |-> TRUE]

\* except asyncio.QueueFull: pass -- the loop goes on with the next subscriber
ExceptQueueFull(q, rest, log_entry) ==
    LET r == Deliver(rest, log_entry)
    IN  [queues |-> <<q>> \o r.queues, raised |-> r.raised]

\* for q in self.subscribers: q.put_nowait(log_entry), which raises QueueFull
\* when the queue holds maxsize entries
Deliver(qs, log_entry) ==
    IF qs = <<>>
    THEN [queues |-> <<>>, raised |-> FALSE]
    ELSE IF Len(Head(qs)) >= QueueMaxSize
    THEN ExceptQueueFull(Head(qs), Tail(qs), log_entry)
    ELSE LET r == Deliver(Tail(qs), log_entry)
         IN  [queues |-> <<Append(Head(qs), log_entry)>> \o r.queues, raised |-> r.raised]

\* LogBroker.publish: a plain function, one step of the task that logs
publish(log_entry) ==
    /\ log_cache' = CacheAppend(log_cache, log_entry)
    /\ LET r == Deliver(subscribers, log_entry) IN
       /\ subscribers' = r.queues
       /\ publish_result' = IF r.raised THEN "raised" ELSE "returned"
    /\ UNCHANGED <<stageVars, platformVars, dispatcherVars>>

\* LogBroker.register: a new, empty queue is appended and returned
register ==
    /\ Len(subscribers) < MaxSubscribers
    /\ subscribers' = Append(subscribers, <<>>)
    /\ UNCHANGED <<stageVars, platformVars, dispatcherVars, log_cache, publish_result>>

\* LogBroker.unregister(q), q the i-th subscriber
unregister(i) ==
    /\ i \in 1..Len(subscribers)
    /\ subscribers' = SubSeq(subscribers, 1, i - 1) \o SubSeq(subscribers, i + 1, Len(subscribers))
    /\ UNCHANGED <<stageVars, platformVars, dispatcherVars, log_cache, publish_result>>

\* the i-th subscriber takes the next entry from the queue register gave it
Consume(i) ==
    /\ i \in 1..Len(subscribers)
    /\ subscribers[i] # <<>>
    /\ subscribers' = [subscribers EXCEPT ![i] = Tail(@)]
    /\ UNCHANGED <<stageVars, platformVars, dispatcherVars, log_cache, publish_result>>

NextLog ==
    \/ \E log_entry \in LogEntries : publish(log_entry)
    \/ register
    \/ \E i \in 1..MaxSubscribers : unregister(i)
    \/ \E i \in 1..MaxSubscribers : Consume(i)

SpecLog == InitQuiet /\ [][NextLog]_vars

\* --------------------------------------------------------------- Platform
\* Platform.status = value (the property setter)
SetStatus(value) ==
    /\ _status' = value
    /\ _started_at' = IF value = "running" /\ _started_at = NoTime
                      THEN clock ELSE _started_at
    /\ UNCHANGED <<stageVars, brokerVars, dispatcherVars, _errors>>

\* Platform.record_error
record_error ==
    /\ _errors < MaxErrors
    /\ _errors' = _errors + 1
    /\ _status' = "error"
    /\ UNCHANGED <<stageVars, brokerVars, dispatcherVars, _started_at>>

\* Platform.clear_errors
clear_errors ==
    /\ _errors' = 0
    /\ _status' = IF _status = "error" THEN "running" ELSE _status
    /\ UNCHANGED <<stageVars, brokerVars, dispatcherVars, _started_at>>

NextPlatform ==
    \/ \E value \in PlatformStatus : SetStatus(value)
    \/ record_error
    \/ clear_errors
    \/ Tick

SpecPlatform == InitQuiet /\ [][NextPlatform]_vars

\* ------------------------------------------------------------- Dispatcher
\* the stages in registration order; the rate limit stage stands between a
\* stage that runs before it and a stage that runs after it
Stages == <<"before", "rate_limit", "after">>
NumStages == Len(Stages)
LimiterIndex == CHOOSE k \in 1..NumStages : Stages[k] = "rate_limit"

Signals == {"CONTINUE", "TERMINATE", "RAISED"}

\* the stage is initialized with one admission per window
InitDispatch == Init /\ rate_limit_count = 1

\* stage k returned CONTINUE: the next stage, or the end of the list
OnContinue(k) ==
    IF k = NumStages
    THEN [stage |-> 0, outcome |-> "PASSED_THROUGH"]
    ELSE [stage |-> k + 1, outcome |-> "none"]

\* (a variant that goes on after TERMINATE)
OnTerminateContinue(k) == OnContinue(k)

\* stage k signalled TERMINATE: dispatch stops at once
OnTerminate(k) == [stage |-> 0, outcome |-> "STOPPED"]

\* (a variant that calls the stage that raised once more)
OnRaiseRetry(k) == [stage |-> k, outcome |-> "none"]

\* stage k raised: the dispatch of the event is abandoned
OnRaise(k) == [stage |-> 0, outcome |-> "FAILED"]

\* (a variant that does not look at the stop flag of the event)
LimiterSignalIgnoringStop(e) == IF pc[e] = "raised" THEN "RAISED" ELSE "CONTINUE"

\* what the return of RateLimitStage.process tells the Dispatcher: an
\* exception, or the stop flag that event.stop_event() set, or nothing
LimiterSignal(e) ==
    IF pc[e] = "raised" THEN "RAISED"
    ELSE IF stopped[e] THEN "TERMINATE"
    ELSE "CONTINUE"

\* the Dispatcher takes what stage k of event e signalled and moves on
Dispatch(e, k, signal) ==
    LET d == IF signal = "TERMINATE" THEN OnTerminate(k)
             ELSE IF signal = "RAISED" THEN OnRaise(k)
             ELSE OnContinue(k)
    IN
    /\ signals' = [signals EXCEPT ![e] = Append(@, signal)]
    /\ stage_of' = [stage_of EXCEPT ![e] = d.stage]
    /\ outcome' = [outcome EXCEPT ![e] = d.outcome]
    /\ invoked' = [invoked EXCEPT ![e] = IF d.stage = 0 THEN @ ELSE Append(@, d.stage)]

\* Dispatcher.run(event): the first stage is invoked
Run(e) ==
    /\ stage_of[e] = 0 /\ outcome[e] = "none" /\ pc[e] = "idle"
    /\ stage_of' = [stage_of EXCEPT ![e] = 1]
    /\ invoked' = [invoked EXCEPT ![e] = <<1>>]
    /\ UNCHANGED <<stageVars, brokerVars, platformVars, signals, outcome>>

\* a stage other than the rate limiter returns or raises, after any suspension
StageReturns(e, signal) ==
    /\ stage_of[e] \in (1..NumStages) \ {LimiterIndex}
    /\ Len(invoked[e]) <= NumStages
    /\ Dispatch(e, stage_of[e], signal)
    /\ UNCHANGED <<stageVars, brokerVars, platformVars>>

\* the Dispatcher calls RateLimitStage.process(event)
ArriveDispatched(e, sid) == stage_of[e] = LimiterIndex /\ Arrive(e, sid)

\* RateLimitStage.process has returned or raised: the Dispatcher moves on
LimiterReturns(e) ==
    /\ stage_of[e] = LimiterIndex
    /\ pc[e] \in {"admitted", "dropped", "raised"}
    /\ Len(invoked[e]) <= NumStages
    /\ Dispatch(e, LimiterIndex, LimiterSignal(e))
    /\ UNCHANGED <<stageVars, brokerVars, platformVars>>

\* the call of process() is over once the Dispatcher has its result
ReturnDispatched(e) == stage_of[e] # LimiterIndex /\ Return(e)

\* run(event) has returned its outcome; the next event takes the place
Finish(e) ==
    /\ outcome[e] # "none" /\ pc[e] = "idle"
    /\ outcome' = [outcome EXCEPT ![e] = "none"]
    /\ invoked' = [invoked EXCEPT ![e] = <<>>]
    /\ signals' = [signals EXCEPT ![e] = <<>>]
    /\ UNCHANGED <<stageVars, brokerVars, platformVars, stage_of>>

NextDispatch ==
    \/ \E e \in Events : Run(e)
    \/ \E e \in Events, signal \in Signals : StageReturns(e, signal)
    \/ \E e \in Events, sid \in Sessions : ArriveDispatched(e, sid)
    \/ \E e \in Events : LockGranted(e)
    \/ \E e \in Events : Wake(e)
    \/ \E e \in Events : LimiterReturns(e)
    \/ \E e \in Events : ReturnDispatched(e)
    \/ \E e \in Events : Finish(e)
    \/ Tick

SpecDispatch == InitDispatch /\ [][NextDispatch]_vars

\* ------------------------------------------------------------- vocabulary
\* the deque of a session (empty when the key was never touched)
TimestampsOf(m, s) == Lookup(m, s, <<>>)

IsSorted(q) == \A i \in 1..Len(q) - 1 : q[i] <= q[i + 1]

\* this step call e runs one pass of the loop (prune, check, append/sleep/stop)
RunsPass(e) ==
    \/ pc[e] = "idle" /\ pc'[e] \in {"admitted", "dropped", "sleeping", "raised", "spinning"}
    \/ pc[e] = "waiting" /\ pc'[e] \notin {"waiting", "cancelled_waiting"}
    \/ pc[e] = "sleeping" /\ pc'[e] # "cancelled"
                         /\ (pc'[e] # "sleeping" \/ wake_at'[e] # wake_at[e])

Admits(e) == RunsPass(e) /\ pc'[e] = "admitted"
Drops(e) == RunsPass(e) /\ pc'[e] = "dropped"

\* call e is inside the critical section of session s
InSection(e, s) == pc[e] \in {"sleeping", "spinning"} /\ session_id[e] = s

TypeOK ==
    /\ clock \in 0..MaxClock
    /\ pc \in [Events -> {"idle", "waiting", "sleeping", "admitted", "dropped",
                          "raised", "spinning", "cancelled", "cancelled_waiting"}]

\* ------------------------------------------------------------------- claims
\* C1: in any trailing window (t - rate_limit_time, t] a session has at most
\* rate_limit_count admissions (admissions counted at the instant they happen).
C1_WindowNeverExceeded ==
    \A s \in Sessions : Len(admissions[s]) <= rate_limit_count

\* C2: at most one call at a time is inside the critical section of a session:
\* no two calls sleep in the section of one session, the lock is held while
\* one is inside, and no pass runs while another call is inside.
C2_MutualExclusion ==
    /\ [](\A s \in Sessions :
            /\ Cardinality({e \in Events : InSection(e, s)}) <= 1
            /\ (\E e \in Events : InSection(e, s)) => Lookup(locks, s, NewLock).locked)
    /\ [][\A e \in Events : RunsPass(e) =>
            \A f \in Events \ {e} : ~InSection(f, session_id'[e])]_vars

\* a call waits for the lock of a session while another sleeps inside its section
C2_Witness ==
    \E e, f \in Events :
        /\ InSection(e, "A")
        /\ pc[f] = "waiting" /\ session_id[f] = "A"

\* C3: under "stall" the lock stays held for the whole sleep: while a call sleeps
\* (before and after the step), the lock of its session is held and the
\* session's deque is not touched by any step.
C3_LockHeldAcrossStall ==
    [][\A e \in Events :
          (pc[e] = "sleeping" /\ ~RunsPass(e)) =>
             LET s == session_id[e] IN
             /\ locks[s].locked /\ locks'[s].locked
             /\ TimestampsOf(event_timestamps', s) = TimestampsOf(event_timestamps, s)]_vars

\* a second event of the session arrived during the sleep and has been waiting
\* since an earlier instant
C3_Witness ==
    \E e, f \in Events :
        /\ pc[e] = "sleeping" /\ session_id[e] = "B"
        /\ pc[f] = "waiting" /\ session_id[f] = "B"
        /\ now[f] < clock /\ clock < wake_at[e]

\* C4: a step of a call of one session leaves the deque, the lock and the
\* admissions of every other session as they were, and a call has to wait only
\* when the lock of its own session is held or awaited.
C4_CrossSessionIndependence ==
    [][\A e \in Events :
          (pc'[e] # pc[e] \/ wake_at'[e] # wake_at[e]) =>
             /\ \A s \in Sessions \ {session_id'[e]} :
                   /\ TimestampsOf(event_timestamps', s) = TimestampsOf(event_timestamps, s)
                   /\ Lookup(locks', s, NewLock) = Lookup(locks, s, NewLock)
                   /\ admissions'[s] = admissions[s]
             /\ (pc[e] = "idle" /\ pc'[e] = "waiting") =>
                   LET l == Lookup(locks, session_id'[e], NewLock)
                   IN  l.locked \/ l.waiters # <<>>]_vars

\* while a call of A sleeps holding A's lock, a call of B stands admitted at the
\* current instant and B's lock is free
C4_Witness ==
    \E e, f \in Events :
        /\ InSection(e, "A") /\ locks["A"].locked
        /\ pc[f] = "admitted" /\ session_id[f] = "B"
        /\ "B" \in DOMAIN event_timestamps
        /\ event_timestamps["B"] # <<>>
        /\ event_timestamps["B"][Len(event_timestamps["B"])] = clock
        /\ clock > event_timestamps["A"][Len(event_timestamps["A"])]
        /\ ~locks["B"].locked

\* C5: every pass that follows a lock acquisition works with an instant read
\* under the lock: the `now` of a call that waited for the lock is the instant
\* of the pass, and the timestamp a pass appends is the instant of the append.
C5_NowReadUnderLock ==
    [][\A e \in Events :
          /\ (pc[e] = "waiting" /\ RunsPass(e)) => now[e] = clock
          /\ Admits(e) =>
                LET q == TimestampsOf(event_timestamps', session_id'[e])
                IN  q[Len(q)] = clock]_vars

\* C6: every session's timestamp sequence is non-decreasing from head to tail.
C6_OldestFirst ==
    \A s \in DOMAIN event_timestamps : IsSorted(event_timestamps[s])

\* the entries a pass of call e leaves after its prune (before its append)
Survivors(e) ==
    LET q == TimestampsOf(event_timestamps', session_id'[e])
    IN  IF pc'[e] = "admitted" THEN SubSeq(q, 1, Len(q) - 1) ELSE q

\* C7: when the prune of a pass completes, every entry left in the deque is
\* younger than the window: clock - entry < rate_limit_time.
C7_NoStaleEntryAfterRead ==
    [][\A e \in Events : RunsPass(e) =>
          \A i \in 1..Len(Survivors(e)) :
             clock - Survivors(e)[i] < rate_limit_time]_vars

\* C8: a pass that drops its event under "discard" leaves every deque as it
\* was: nothing appended, nothing removed.
C8_DiscardLeavesSequence ==
    [][\A e \in Events : Drops(e) => event_timestamps' = event_timestamps]_vars

\* an event stands dropped while the deque of its session is full
C8_Witness ==
    \E e \in Events :
        /\ pc[e] = "dropped"
        /\ Len(TimestampsOf(event_timestamps, session_id[e])) = rate_limit_count

\* C9: the event is stopped exactly when it was dropped, an event is dropped
\* only under "discard", and under "discard" no call is ever suspended (neither
\* asleep nor waiting for a lock).
C9_StopOnlyOnDiscard ==
    \A e \in Events :
        /\ stopped[e] <=> pc[e] = "dropped"
        /\ pc[e] = "dropped" => rl_strategy = "discard"
        /\ rl_strategy = "discard" => pc[e] \in {"idle", "admitted", "dropped"}

\* one event of a session stands dropped and stopped, another admitted and not
C9_Witness ==
    \E e, f \in Events :
        /\ pc[e] = "dropped" /\ stopped[e]
        /\ pc[f] = "admitted" /\ ~stopped[f]
        /\ session_id[e] = session_id[f]

\* the recorded admissions of session s that are inside the window at instant t
\* (age at most rate_limit_time)
InsideWindow(s, t) ==
    LET q == TimestampsOf(event_timestamps, s)
    IN  {i \in 1..Len(q) : t - q[i] <= rate_limit_time}

\* C10: under "discard" an attempt at instant t is admitted, and t appended,
\* exactly when fewer than rate_limit_count recorded admissions of its session
\* are inside the window at t, and is dropped otherwise; with count 2 and
\* window 10 the attempts at 0, 1, 2 are admitted, admitted, dropped and the
\* deque is <<0, 1>> after the drop.
C10_DiscardAdmitsIffRoom ==
    [][\A e \in Events :
          (rl_strategy = "discard" /\ RunsPass(e)) =>
             LET s == session_id'[e]
                 q == TimestampsOf(event_timestamps, s)
                 r == TimestampsOf(event_timestamps', s)
                 k == Cardinality(InsideWindow(s, clock))
             IN
             /\ pc'[e] = "admitted" <=> k < rate_limit_count
             /\ pc'[e] = "dropped" <=> k >= rate_limit_count
             /\ pc'[e] = "admitted" =>
                   r = Append(SubSeq(q, Len(q) - k + 1, Len(q)), clock)
             /\ pc'[e] = "dropped" => r = q
             /\ (rate_limit_count = 2 /\ rate_limit_time = 10) =>
                   /\ (clock = 0 /\ q = <<>>) => r = <<0>>
                   /\ (clock = 1 /\ q = <<0>>) => r = <<0, 1>>
                   /\ (clock = 2 /\ q = <<0, 1>>) =>
                         (pc'[e] = "dropped" /\ r = <<0, 1>>)]_vars

\* count 2, window 10, "discard": at instant 2 an event stands dropped and the
\* deque of its session is <<0, 1>>
C10_Witness ==
    /\ rate_limit_count = 2 /\ rate_limit_time = 10 /\ rl_strategy = "discard"
    /\ clock = 2
    /\ \E e \in Events :
          /\ pc[e] = "dropped"
          /\ session_id[e] \in DOMAIN event_timestamps
          /\ event_timestamps[session_id[e]] = <<0, 1>>

\* ------------------------------------------------------- claims C11 .. C20
\* the `now` the pass of call e works with in this step
NowOfPass(e) == IF pc[e] = "waiting" THEN now[e] ELSE clock

\* this step call e finds its session over capacity (it sleeps or is dropped)
OverCapacity(e) == RunsPass(e) /\ pc'[e] \in {"sleeping", "dropped", "spinning"}

\* C11: under "stall" a call that slept is admitted only by a pass that runs
\* after the sleep has ended, works with the instant of the wake-up, has pruned
\* (the entries kept are a suffix of the deque and their head is not expired)
\* and has found fewer than rate_limit_count entries.
C11_AdmittedOnlyAfterRecheck ==
    [][\A e \in Events :
          (pc[e] = "sleeping" /\ pc'[e] = "admitted") =>
             LET s == session_id[e]
                 q == TimestampsOf(event_timestamps, s)
                 r == TimestampsOf(event_timestamps', s)
                 kept == SubSeq(r, 1, Len(r) - 1)
             IN
             /\ clock >= wake_at[e]
             /\ r # <<>> /\ r[Len(r)] = clock
             /\ Len(kept) < rate_limit_count
             /\ kept = SubSeq(q, Len(q) - Len(kept) + 1, Len(q))
             /\ kept # <<>> => kept[1] >= clock - rate_limit_time
             /\ Len(kept) < Len(q) => q[Len(q) - Len(kept)] < clock - rate_limit_time]_vars

\* a call was admitted at the current instant while another call of its session
\* has been waiting for the lock since an earlier instant: the admitted call
\* held the lock across a sleep
C11_Witness ==
    \E e, f \in Events :
        /\ rl_strategy = "stall"
        /\ pc[e] = "admitted" /\ pc[f] = "waiting"
        /\ session_id[e] = session_id[f]
        /\ now[f] < clock
        /\ ~locks[session_id[e]].locked
        /\ LET r == event_timestamps[session_id[e]] IN r[Len(r)] = clock

\* C12: under "stall" every call that waits for the lock or sleeps is
\* eventually admitted, and at that moment its event is not stopped and the
\* lock of its session is free; the step that admits it appends one timestamp
\* to what the prune left.
C12_EventuallyAdmitted ==
    /\ \A e \in Events :
          (pc[e] \in {"waiting", "sleeping"}) ~>
             (/\ pc[e] = "admitted"
              /\ ~stopped[e]
              /\ ~locks[LockKey(session_id[e])].locked)
    /\ [][\A e \in Events :
            Admits(e) =>
               LET s == session_id'[e]
                   q == _remove_expired_timestamps(TimestampsOf(event_timestamps, s),
                                                   NowOfPass(e))
               IN  event_timestamps'[s] = Append(q, NowOfPass(e))]_vars

\* a call that slept was admitted after the last arrival instant
C12_Witness ==
    \E e \in Events :
        /\ pc[e] = "admitted"
        /\ \A t \in ArrivalInstants : clock > t
        /\ LET r == event_timestamps[session_id[e]] IN r[Len(r)] = clock
        /\ ~stopped[e]

\* C13: a call that stalls sleeps at least until oldest + window + grace, with
\* oldest the head of the deque it found; it is admitted no earlier than that
\* and the timestamp appended for it is the instant of the wake-up.  With count
\* 2 and a window of 10 s, after admissions at 0 s and 1 s the call that stalls
\* sleeps until 10.3 s and is admitted then, leaving 1 s and 10.3 s.
C13_AdmittedAfterOldestLeaves ==
    /\ [](\A e \in Events :
            pc[e] = "sleeping" =>
               LET q == event_timestamps[session_id[e]] IN
               /\ wake_at[e] >= q[1] + rate_limit_time + Grace
               /\ (rate_limit_count = 2 /\ rate_limit_time = 100 /\ q = <<0, 10>>) =>
                     wake_at[e] = 103)
    /\ [][\A e \in Events :
            (pc[e] = "sleeping" /\ pc'[e] = "admitted") =>
               LET q == event_timestamps[session_id[e]]
                   r == event_timestamps'[session_id[e]]
               IN
               /\ clock >= q[1] + rate_limit_time + Grace
               /\ r[Len(r)] = clock
               /\ (rate_limit_count = 2 /\ rate_limit_time = 100 /\ q = <<0, 10>>
                     /\ clock = wake_at[e]) => r = <<10, 103>>]_vars

\* the third attempt of the scenario has just been admitted at 10.3 s
C13_Witness ==
    \E e \in Events :
        /\ rate_limit_count = 2 /\ rate_limit_time = 100
        /\ pc[e] = "admitted"
        /\ clock = 103
        /\ event_timestamps[session_id[e]] = <<10, 103>>

\* C14: in every pass that finds the session over capacity, the wait computed
\* by the code, (oldest + window - now) + grace, equals the clamped
\* max(0, oldest + window - now) + grace; under "stall" it is the time slept.
C14_WaitEqualsClampedWait ==
    [][\A e \in Events :
          OverCapacity(e) =>
             LET q == TimestampsOf(event_timestamps', session_id'[e])
                 n == NowOfPass(e)
                 remaining == q[1] + rate_limit_time - n
                 clamped == (IF remaining >= 0 THEN remaining ELSE 0) + Grace
             IN
             /\ StallDuration(q, n) = clamped
             /\ pc'[e] = "sleeping" => wake_at'[e] - clock = clamped]_vars

\* a call sleeps for a wait computed from an instant older than its pass
C14_Witness ==
    \E e \in Events :
        /\ pc[e] = "sleeping"
        /\ wake_at[e] > Head(event_timestamps[session_id[e]]) + rate_limit_time + Grace

\* C15: the wait computed in an over-capacity pass is never negative, and for
\* the same oldest entry it is strictly smaller for every later `now` up to
\* wake_at = oldest + window, where it is still the grace.
C15_WaitMonotone ==
    [][\A e \in Events :
          OverCapacity(e) =>
             LET q == TimestampsOf(event_timestamps', session_id'[e])
                 n == NowOfPass(e)
             IN
             /\ StallDuration(q, n) >= 0
             /\ \A m \in (n + 1)..(q[1] + rate_limit_time) :
                   /\ StallDuration(q, m) < StallDuration(q, m - 1)
                   /\ StallDuration(q, m) >= Grace]_vars

\* a call sleeps for a wait computed before wake_at = oldest + window
C15_Witness ==
    \E e \in Events :
        /\ pc[e] = "sleeping"
        /\ wake_at[e] = Head(event_timestamps[session_id[e]]) + rate_limit_time + Grace
        /\ clock < Head(event_timestamps[session_id[e]]) + rate_limit_time

\* C16: pruning a deque twice with the same `now` leaves what pruning it once
\* leaves, for every deque the stage holds and every instant.
C16_PruneIdempotent ==
    \A s \in DOMAIN event_timestamps : \A n \in 0..(MaxClock + 1) :
        LET once == _remove_expired_timestamps(event_timestamps[s], n)
        IN  _remove_expired_timestamps(once, n) = once

\* a deque holds two entries that a prune at the current instant removes
C16_Witness ==
    \E s \in DOMAIN event_timestamps :
        /\ Len(event_timestamps[s]) >= 2
        /\ _remove_expired_timestamps(event_timestamps[s], clock) = <<>>

\* C17: with rate_limit_count = 0 or rate_limit_time = 0 the stage is never
\* initialized, so no call of process() ever runs under such a configuration.
C17_InvalidConfigNeverServes ==
    (rate_limit_count = 0 \/ rate_limit_time = 0) => \A e \in Events : pc[e] = "idle"

\* C18: no call of process() is ever in the over-capacity branch with a
\* strategy that is neither "stall" nor "discard".
C18_UnknownStrategyNeverOverCapacity ==
    \A e \in Events : rl_strategy \notin Strategies => pc[e] # "spinning"

\* C19: when a call is cancelled during its sleep, the sleep is over (the call
\* never wakes or runs a pass again), the lock of its session is free after the
\* step, and the deque of the session is what it was before the step; from
\* then on the call only returns.
C19_CancelWhileStalled ==
    [][\A e \in Events :
          /\ (pc[e] = "sleeping" /\ pc'[e] = "cancelled") =>
                LET s == session_id[e] IN
                /\ event_timestamps'[s] = event_timestamps[s]
                /\ ~locks'[LockKey(s)].locked
                /\ wake_at'[e] = NoTime
          /\ pc[e] = "cancelled" =>
                /\ pc'[e] \in {"cancelled", "idle"}
                /\ ~RunsPass(e)]_vars

\* a call was cancelled in its sleep: the deque of its session is as full as
\* the pass that stalled found it, and the lock is free
C19_Witness ==
    \E e \in Events :
        /\ pc[e] = "cancelled"
        /\ ~locks[LockKey(session_id[e])].locked
        /\ Len(event_timestamps[session_id[e]]) = rate_limit_count
        /\ wake_at[e] = NoTime

\* C20: the lock of a session is held exactly while a call is inside the
\* section of that session (after an admission, a discard, a cancellation or
\* an exception it is free), and the calls queued on it are calls that still
\* wait, so that the first of them can take it.
C20_LockReleasedOnEveryExit ==
    \A s \in DOMAIN locks :
        /\ locks[s].locked <=> \E e \in Events : InSection(e, s)
        /\ \A i \in 1..Len(locks[s].waiters) :
              /\ pc[locks[s].waiters[i]] = "waiting"
              /\ LockKey(session_id[locks[s].waiters[i]]) = s
        /\ \A e \in Events :
              (pc[e] = "waiting" /\ LockKey(session_id[e]) = s) =>
                 \E i \in 1..Len(locks[s].waiters) : locks[s].waiters[i] = e

\* a call left the section by a cancellation and the lock is free for the call
\* that waits first in line
C20_Witness ==
    \E e, f \in Events :
        /\ pc[e] = "cancelled" /\ pc[f] = "waiting"
        /\ session_id[e] = session_id[f]
        /\ ~locks[LockKey(session_id[f])].locked
        /\ Head(locks[LockKey(session_id[f])].waiters) = f

\* ------------------------------------------------------- claims C21 .. C30
\* this step is a call of publish that changed something: the list of
\* subscribers keeps its length and no queue loses an entry
PublishStep ==
    /\ brokerVars' # brokerVars
    /\ Len(subscribers') = Len(subscribers)
    /\ \A i \in 1..Len(subscribers) : Len(subscribers'[i]) >= Len(subscribers[i])

\* C21: publish can be called in every state of the broker and is a single
\* step that returns: it never raises, it caches the entry, every subscriber
\* whose queue has room receives the entry, and a subscriber whose queue is
\* full keeps its queue as it was while the others still receive it.
C21_PublishNeverBlocks ==
    /\ [](/\ publish_result # "raised"
          /\ \A log_entry \in LogEntries : ENABLED publish(log_entry))
    /\ [][PublishStep =>
            \E log_entry \in LogEntries :
               /\ publish_result' = "returned"
               /\ log_cache' = CacheAppend(log_cache, log_entry)
               /\ \A i \in 1..Len(subscribers) :
                     subscribers'[i] =
                        IF Len(subscribers[i]) < QueueMaxSize
                        THEN Append(subscribers[i], log_entry)
                        ELSE subscribers[i]]_vars

\* the discard entry was published while the first subscriber's queue was full
\* of stall entries: the first subscriber lost it, the second received it
C21_Witness ==
    /\ publish_result = "returned"
    /\ Len(subscribers) = 2
    /\ Len(subscribers[1]) = QueueMaxSize
    /\ \A i \in 1..Len(subscribers[1]) : subscribers[1][i] = "stall"
    /\ log_cache # <<>> /\ log_cache[Len(log_cache)] = "discard"
    /\ subscribers[2] # <<>> /\ subscribers[2][Len(subscribers[2])] = "discard"

\* C22: the stages invoked for an event are the first ones of the list, in
\* registration order and each once; a stage is invoked only while every
\* stage before it returned CONTINUE; run returns STOPPED exactly when the
\* last stage that returned signalled TERMINATE, with no stage running or
\* invoked after it, and PASSED_THROUGH exactly when every stage of the list
\* returned CONTINUE.
C22_StagesInOrderUntilTerminate ==
    \A e \in Events :
        LET n == Len(signals[e]) IN
        /\ invoked[e] = [i \in 1..Len(invoked[e]) |-> i]
        /\ Len(invoked[e]) = n + (IF stage_of[e] = 0 THEN 0 ELSE 1)
        /\ stage_of[e] # 0 => stage_of[e] = Len(invoked[e])
        /\ \A i \in 1..(n - 1) : signals[e][i] = "CONTINUE"
        /\ outcome[e] = "STOPPED" <=> (n > 0 /\ signals[e][n] = "TERMINATE")
        /\ outcome[e] = "STOPPED" => stage_of[e] = 0
        /\ outcome[e] = "PASSED_THROUGH" <=>
              (n = NumStages /\ \A i \in 1..n : signals[e][i] = "CONTINUE")

\* the rate limiter stopped an event: run returned STOPPED and the stage
\* registered after the limiter was never invoked
C22_Witness ==
    \E e \in Events :
        /\ outcome[e] = "STOPPED"
        /\ signals[e] = <<"CONTINUE", "TERMINATE">>
        /\ invoked[e] = <<1, LimiterIndex>>

\* C23: while process() of the rate limiter waits for the lock or sleeps, and
\* after it has stopped the event, the limiter is the last stage invoked for
\* the event and no other stage runs for it; the stage after the limiter is
\* invoked only in a step that finds the event admitted and not stopped.
C23_NoLaterStageBeforeAdmission ==
    /\ [](\A e \in Events :
            /\ pc[e] \in {"waiting", "sleeping", "dropped"} =>
                  \A i \in 1..Len(invoked[e]) : invoked[e][i] <= LimiterIndex
            /\ pc[e] \in {"waiting", "sleeping"} => stage_of[e] = LimiterIndex
            /\ (Len(signals[e]) >= LimiterIndex /\ signals[e][LimiterIndex] = "TERMINATE") =>
                  /\ stage_of[e] = 0
                  /\ Len(invoked[e]) = LimiterIndex)
    /\ [][\A e \in Events :
            (stage_of'[e] > LimiterIndex /\ stage_of[e] <= LimiterIndex) =>
               /\ stage_of[e] = LimiterIndex
               /\ pc[e] = "admitted"
               /\ ~stopped[e]]_vars

\* the stage after the limiter runs for an event that the limiter admitted
\* after a sleep (another event of the session has waited for the lock since
\* an earlier instant)
C23_Witness ==
    \E e, f \in Events :
        /\ stage_of[e] = LimiterIndex + 1
        /\ pc[e] = "admitted" /\ pc[f] = "waiting"
        /\ session_id[e] = session_id[f]
        /\ now[f] < clock
        /\ event_timestamps[session_id[e]] = <<clock>>

\* C24: when a stage raised, it is the last stage invoked for the event (no
\* later stage, and the same stage not again), no stage runs for the event and
\* its dispatch has ended as failed; a free slot can still start the dispatch
\* of another event.
C24_RaiseAbandonsEvent ==
    \A e \in Events :
        /\ \A i \in 1..Len(signals[e]) :
              signals[e][i] = "RAISED" =>
                 /\ i = Len(signals[e])
                 /\ Len(invoked[e]) = i
                 /\ stage_of[e] = 0
                 /\ outcome[e] = "FAILED"
        /\ \A i, j \in 1..Len(invoked[e]) : invoked[e][i] = invoked[e][j] => i = j
        /\ outcome[e] = "FAILED" =>
              \A f \in Events \ {e} :
                 (stage_of[f] = 0 /\ outcome[f] = "none" /\ pc[f] = "idle") => ENABLED Run(f)

\* the dispatch of one event failed in the stage after the limiter while the
\* last stage runs for another event
C24_Witness ==
    \E e, f \in Events :
        /\ outcome[e] = "FAILED"
        /\ signals[e] = <<"CONTINUE", "CONTINUE", "RAISED">>
        /\ stage_of[f] = NumStages

\* C25: for every deque the stage holds and every instant, the prune removes
\* exactly the longest leading run of entries older than now - window: what
\* is left is a suffix of the deque in the same order, every entry removed is
\* older than the threshold, and the first entry left is not.
C25_PruneRemovesLeadingRun ==
    \A s \in DOMAIN event_timestamps : \A n \in 0..(MaxClock + 1) :
        LET q == event_timestamps[s]
            r == _remove_expired_timestamps(q, n)
            k == Len(q) - Len(r)
        IN
        /\ k >= 0
        /\ r = SubSeq(q, k + 1, Len(q))
        /\ \A i \in 1..k : q[i] < n - rate_limit_time
        /\ r # <<>> => r[1] >= n - rate_limit_time

\* a deque whose head is expired now and whose second entry is not
C25_Witness ==
    \E s \in DOMAIN event_timestamps :
        LET q == event_timestamps[s] IN
        /\ Len(q) >= 2
        /\ q[1] < clock - rate_limit_time
        /\ q[2] >= clock - rate_limit_time
        /\ _remove_expired_timestamps(q, clock) = Tail(q)

\* C26: both maps start empty; a key enters the map of locks in the step in
\* which a call first names that session, no key ever leaves either map,
\* every key with a deque has a lock, and every call in flight finds the lock
\* of its session in the map.
C26_SessionStateOnlyGrows ==
    /\ DOMAIN locks = {} /\ DOMAIN event_timestamps = {}
    /\ [](/\ DOMAIN event_timestamps \subseteq DOMAIN locks
          /\ \A e \in Events :
                session_id[e] # NoSession => LockKey(session_id[e]) \in DOMAIN locks)
    /\ [][/\ DOMAIN locks \subseteq DOMAIN locks'
          /\ DOMAIN event_timestamps \subseteq DOMAIN event_timestamps'
          /\ \A k \in DOMAIN locks' \ DOMAIN locks :
                \E e \in Events : pc[e] = "idle" /\ LockKey(session_id'[e]) = k
          /\ \A k \in DOMAIN event_timestamps' \ DOMAIN event_timestamps :
                \E e \in Events : RunsPass(e) /\ session_id'[e] = k]_vars

\* both sessions have their lock and their deque, and no call is in flight
C26_Witness ==
    /\ DOMAIN locks = Sessions
    /\ DOMAIN event_timestamps = Sessions
    /\ \A e \in Events : pc[e] = "idle"

\* C27: the queue that register() appends and returns holds the entries of
\* log_cache, in their order.
C27_RegisterCarriesCache ==
    [][Len(subscribers') = Len(subscribers) + 1 =>
          subscribers'[Len(subscribers')] = log_cache]_vars

\* C28: with rate_limit_count >= 1 no deque is ever longer than
\* rate_limit_count.
C28_LengthAtMostCount ==
    rate_limit_count >= 1 =>
        \A s \in DOMAIN event_timestamps : Len(event_timestamps[s]) <= rate_limit_count

\* a full deque of two entries, with one call asleep in the section and
\* another waiting for the lock
C28_Witness ==
    \E e, f \in Events :
        /\ pc[e] = "sleeping" /\ pc[f] = "waiting"
        /\ session_id[e] = session_id[f]
        /\ rate_limit_count = 2
        /\ Len(event_timestamps[session_id[e]]) = rate_limit_count

\* C29: under "stall" a call whose sleep has ended finds the head of the deque
\* expired and room behind it, and the pass that follows the sleep admits it,
\* so that no call sleeps twice, also when its wait was computed from an
\* instant read before the lock was acquired.
C29_SleepsAtMostOnce ==
    /\ [](\A e \in Events :
            (pc[e] = "sleeping" /\ clock >= wake_at[e]) =>
               LET q == event_timestamps[session_id[e]] IN
               /\ q[1] < clock - rate_limit_time
               /\ HasCapacity(_remove_expired_timestamps(q, clock)))
    /\ [][\A e \in Events :
            (pc[e] = "sleeping" /\ RunsPass(e)) => pc'[e] = "admitted"]_vars

\* a call sleeps for a wait computed from a stale instant and the end of its
\* sleep has come
C29_Witness ==
    \E e \in Events :
        /\ pc[e] = "sleeping"
        /\ clock >= wake_at[e]
        /\ wake_at[e] > Head(event_timestamps[session_id[e]]) + rate_limit_time + Grace

\* C30: whenever the platform is running its start time is set, and a start
\* time that is set never changes.
C30_RunningHasStartTime ==
    /\ [](_status = "running" => _started_at # NoTime)
    /\ [][_started_at # NoTime => _started_at' = _started_at]_vars
====
